---------------------------- MODULE Spec2Model ----------------------------
(***************************************************************************)
(* A model of streamlit_app.py: the GDP loader (get_gdp_data), the         *)
(* schedule loader (get_schedule_html), the data-URL builder               *)
(* (_build_preview_data_url), the two views (render_gdp_dashboard,         *)
(* render_schedule_view) and the module-level dispatch on the sidebar      *)
(* radio.                                                                  *)
(*                                                                         *)
(* Numbers.  A float64 is modelled by its kind ("nan", "inf", "finite"),   *)
(* its sign and, when finite, an exact fraction num/den in lowest terms.   *)
(* Money is counted in UNITs of 125,000,000 currency units, so that the    *)
(* divisor 1_000_000_000 of the source is BILLION \div UNIT = 8 UNITs and  *)
(* every scaled value k/8 is a binary fraction, which float64 holds        *)
(* exactly.  The first-year values of GdpValues are not multiples of 5     *)
(* UNITs: a quotient last/first that lies exactly half way between two     *)
(* two-decimal numbers is then a binary fraction too, so the quotient      *)
(* float64 computes there is the exact one, and away from such a tie the   *)
(* rounding error of float64 (2^-53, relative) is far below the distance   *)
(* to the nearest tie (at least 1/(200*den)).  On this domain the exact    *)
(* fraction formatted with round-half-even is what Python prints.          *)
(*                                                                         *)
(* Text.  A str is a sequence of code points, a bytes object a sequence   *)
(* of integers 0..255, and an ASCII str produced by the source (a          *)
(* formatted number, a base64 payload) a TLA+ string or a sequence of      *)
(* one-character strings.                                                  *)
(***************************************************************************)
EXTENDS Integers, Sequences, FiniteSets, TLC

VARIABLES
    first_gdp_series,   \* growth computation: the GDP column of the first-year lookup
    last_gdp_series,    \* growth computation: the GDP column of the last-year lookup
    metric,             \* growth computation: the st.metric call made, <<>> before it
    html,               \* data-URL builder: its argument
    preview_link,       \* data-URL builder: <<its outcome>>, <<>> before the call
    gdp_df,             \* metric loop: the long table it reads
    from_year,          \* metric loop: the slider's lower year
    to_year,            \* metric loop: the slider's upper year
    selected_countries, \* metric loop: the multiselect's value, in selection order
    metrics,            \* metric loop: <<the st.metric calls made>>, <<>> before it
    data_file,          \* data/gdp_data.csv: <<the wide table>>, <<>> when missing
    schedule_file,      \* assets/leman_bicer_schedule.html: <<its bytes>>, or <<>>
    gdp_cache,          \* st.cache_data of get_gdp_data: <<the long table>>, or <<>>
    schedule_cache,     \* st.cache_data of get_schedule_html: <<the text>>, or <<>>
    view,               \* the sidebar radio's value
    slider,             \* the year slider's value <<from, to>>, <<>> while not shown
    multiselect,        \* <<the country multiselect's value>>, <<>> while not shown
    interactions,       \* widget interactions of the session so far
    failed_views,       \* the views whose run has raised so far
    out                 \* what the last script run put on the page

growth_vars == <<first_gdp_series, last_gdp_series, metric>>

url_vars == <<html, preview_link>>

loop_vars == <<gdp_df, from_year, to_year, selected_countries, metrics>>

files == <<data_file, schedule_file>>

caches == <<gdp_cache, schedule_cache>>

session == <<view, slider, multiselect, interactions, failed_views, out>>

app_vars == <<files, caches, session>>

vars == <<growth_vars, url_vars, loop_vars, app_vars>>

-----------------------------------------------------------------------------
(* Bounds of the model. *)

\* Longest GDP series handed to the growth computation.
MaxSeriesLen == 1

\* Longest text, in code points, handed to the data-URL builder.
MaxTextLen == 3

\* Most countries selected when the metric loop is run on its own.
MaxSelected == 2

\* Most widget interactions (radio, slider, multiselect) in a session.
MaxInteractions == 2

RECURSIVE SeqsUpTo(_, _)
SeqsUpTo(S, n) ==
    IF n = 0 THEN {<<>>}
    ELSE LET shorter == SeqsUpTo(S, n - 1)
         IN  shorter \cup {Append(s, x) : s \in shorter, x \in S}

\* The variables of a part of the program that a specification leaves out.
GrowthIdle == first_gdp_series = <<>> /\ last_gdp_series = <<>> /\ metric = <<>>

UrlIdle == html = <<>> /\ preview_link = <<>>

LoopIdle ==
    /\ gdp_df = <<>>
    /\ from_year = 0
    /\ to_year = 0
    /\ selected_countries = <<>>
    /\ metrics = <<>>

AppIdle ==
    /\ data_file = <<>>
    /\ schedule_file = <<>>
    /\ gdp_cache = <<>>
    /\ schedule_cache = <<>>
    /\ view = "GDP dashboard"
    /\ slider = <<>>
    /\ multiselect = <<>>
    /\ interactions = 0
    /\ failed_views = {}
    /\ out = <<>>

\* The outcome of a call: the value returned, or the exception raised.
Returned(v) == [raised |-> "", value |-> v]

Raised(exception) == [raised |-> exception, value |-> <<>>]

-----------------------------------------------------------------------------
(* float64 *)

BILLION == 1000000000

UNIT == 125 * 1000000

RECURSIVE Gcd(_, _)
Gcd(a, b) == IF b = 0 THEN a ELSE Gcd(b, a % b)

NaN == [kind |-> "nan", sign |-> 1, num |-> 0, den |-> 1]

Inf(s) == [kind |-> "inf", sign |-> s, num |-> 0, den |-> 1]

\* The float sign * n / d, in lowest terms (n >= 0, d > 0).
Finite(s, n, d) ==
    LET g == Gcd(n, d)
    IN  [kind |-> "finite", sign |-> s, num |-> n \div g, den |-> d \div g]

\* A GDP cell holding k UNITs.
Money(k) == IF k < 0 THEN Finite(-1, -k, 1) ELSE Finite(1, k, 1)

isnan(x) == x.kind = "nan"

\* numpy.float64 true division: x / 0 is inf or nan (a RuntimeWarning, no
\* ZeroDivisionError), and the sign of a zero is kept.
FloatDiv(a, b) ==
    CASE isnan(a) \/ isnan(b) -> NaN
      [] a.kind = "inf" /\ b.kind = "inf" -> NaN
      [] a.kind = "inf" -> Inf(a.sign * b.sign)
      [] b.kind = "inf" -> Finite(a.sign * b.sign, 0, 1)
      [] b.num = 0 /\ a.num = 0 -> NaN
      [] b.num = 0 -> Inf(a.sign * b.sign)
      [] OTHER -> Finite(a.sign * b.sign, a.num * b.den, a.den * b.num)

\* x / 1_000_000_000, for x in UNITs.
ScaleToBillions(x) == FloatDiv(x, Finite(1, BILLION \div UNIT, 1))

-----------------------------------------------------------------------------
(* Format specifications ',.0f' and ',.2f' *)

DigitChar(d) ==
    CASE d = 0 -> "0" [] d = 1 -> "1" [] d = 2 -> "2" [] d = 3 -> "3"
      [] d = 4 -> "4" [] d = 5 -> "5" [] d = 6 -> "6" [] d = 7 -> "7"
      [] d = 8 -> "8" [] d = 9 -> "9"

RECURSIVE Pow10(_)
Pow10(n) == IF n = 0 THEN 1 ELSE 10 * Pow10(n - 1)

\* n in exactly w decimal digits, zero padded.
RECURSIVE PadDigits(_, _)
PadDigits(n, w) ==
    IF w = 0 THEN "" ELSE PadDigits(n \div 10, w - 1) \o DigitChar(n % 10)

\* The ',' option: the digits of n in groups of three.
RECURSIVE GroupThousands(_)
GroupThousands(n) ==
    IF n < 10 THEN DigitChar(n)
    ELSE IF n < 100 THEN PadDigits(n, 2)
    ELSE IF n < 1000 THEN PadDigits(n, 3)
    ELSE GroupThousands(n \div 1000) \o "," \o PadDigits(n % 1000, 3)

\* num/den rounded to an integer, ties away from zero.
RoundHalfUp(num, den) ==
    LET q == num \div den
        r == num % den
    IN  IF 2 * r >= den THEN q + 1 ELSE q

\* num/den rounded to an integer, ties to even.
RoundHalfEven(num, den) ==
    LET q == num \div den
        r == num % den
    IN  IF 2 * r > den \/ (2 * r = den /\ q % 2 = 1) THEN q + 1 ELSE q

\* format(x, ',.<decimals>f')
FormatFixed(x, decimals) ==
    LET scaled == RoundHalfEven(x.num * Pow10(decimals), x.den)
        whole  == GroupThousands(scaled \div Pow10(decimals))
        frac   == IF decimals = 0 THEN ""
                  ELSE "." \o PadDigits(scaled % Pow10(decimals), decimals)
        minus  == IF x.sign = -1 THEN "-" ELSE ""
    IN  CASE x.kind = "nan" -> "nan"
          [] x.kind = "inf" -> minus \o "inf"
          [] OTHER -> minus \o whole \o frac

-----------------------------------------------------------------------------
(* The growth computation of the metric loop *)

\* Series.empty
empty(series) == Len(series) = 0

\* Series.iat[0]
iat0(series) == series[1]

\* The growth with the quotient taken the wrong way round.
GrowthOfInverted(first_gdp, last_gdp) ==
    IF isnan(first_gdp) \/ isnan(last_gdp)
    THEN [delta |-> "n/a", delta_color |-> "off"]
    ELSE [delta |-> FormatFixed(FloatDiv(first_gdp, last_gdp), 2) \o "x",
          delta_color |-> "normal"]

\* The growth and its colour, for two scaled values.
GrowthOf(first_gdp, last_gdp) ==
    IF isnan(first_gdp) \/ isnan(last_gdp)
    THEN [delta |-> "n/a", delta_color |-> "off"]
    ELSE [delta |-> FormatFixed(FloatDiv(last_gdp, first_gdp), 2) \o "x",
          delta_color |-> "normal"]

\* The same with the colour of the early exit left at st.metric's default.
ComputeGrowthDefaultColor(first_series, last_series) ==
    IF empty(first_series) \/ empty(last_series)
    THEN [value |-> "Data unavailable", delta |-> "n/a", delta_color |-> "normal"]
    ELSE LET first_gdp == ScaleToBillions(iat0(first_series))
             last_gdp  == ScaleToBillions(iat0(last_series))
             g         == GrowthOf(first_gdp, last_gdp)
         IN  [value |-> FormatFixed(last_gdp, 0) \o "B",
              delta |-> g.delta,
              delta_color |-> g.delta_color]

\* The body of the loop for one country: the arguments of its st.metric call
\* (the label aside).
ComputeGrowth(first_series, last_series) ==
    IF empty(first_series) \/ empty(last_series)
    THEN [value |-> "Data unavailable", delta |-> "n/a", delta_color |-> "off"]
    ELSE LET first_gdp == ScaleToBillions(iat0(first_series))
             last_gdp  == ScaleToBillions(iat0(last_series))
             g         == GrowthOf(first_gdp, last_gdp)
         IN  [value |-> FormatFixed(last_gdp, 0) \o "B",
              delta |-> g.delta,
              delta_color |-> g.delta_color]

-----------------------------------------------------------------------------
(* The growth computation on its own: any two series in, one metric out. *)

\* GDP cells, in UNITs: 0, -1B, 0.125B, 0.375B, 1B, 1.5B, 2B, 1,234.5B.
GdpValues ==
    {NaN} \cup {Money(k) : k \in {0, -8, 1, 3, 8, 12, 16, 9876}}

InitGrowth ==
    /\ first_gdp_series \in SeqsUpTo(GdpValues, MaxSeriesLen)
    /\ last_gdp_series \in SeqsUpTo(GdpValues, MaxSeriesLen)
    /\ metric = <<>>
    /\ UrlIdle
    /\ LoopIdle
    /\ AppIdle

ApplyComputeGrowth ==
    /\ metric = <<>>
    /\ metric' = <<ComputeGrowth(first_gdp_series, last_gdp_series)>>
    /\ UNCHANGED <<first_gdp_series, last_gdp_series, url_vars, loop_vars, app_vars>>

NextGrowth == ApplyComputeGrowth

SpecGrowth == InitGrowth /\ [][NextGrowth]_vars

-----------------------------------------------------------------------------
(* str.encode('utf-8'), bytes.decode('utf-8'), base64.b64encode *)

IsSurrogate(c) == 55296 <= c /\ c <= 57343

\* One code point encoded as if by 'latin-1' below 256.
Utf8EncodeCodePointLatin1(c) ==
    IF c < 256 THEN <<c>>
    ELSE IF c < 2048 THEN <<192 + (c \div 64), 128 + (c % 64)>>
    ELSE IF c < 65536
    THEN <<224 + (c \div 4096), 128 + ((c \div 64) % 64), 128 + (c % 64)>>
    ELSE <<240 + (c \div 262144), 128 + ((c \div 4096) % 64),
           128 + ((c \div 64) % 64), 128 + (c % 64)>>

\* The UTF-8 bytes of one code point (not a surrogate).
Utf8EncodeCodePoint(c) ==
    IF c < 128 THEN <<c>>
    ELSE IF c < 2048 THEN <<192 + (c \div 64), 128 + (c % 64)>>
    ELSE IF c < 65536
    THEN <<224 + (c \div 4096), 128 + ((c \div 64) % 64), 128 + (c % 64)>>
    ELSE <<240 + (c \div 262144), 128 + ((c \div 4096) % 64),
           128 + ((c \div 64) % 64), 128 + (c % 64)>>

RECURSIVE Utf8Bytes(_)
Utf8Bytes(text) ==
    IF text = <<>> THEN <<>>
    ELSE Utf8EncodeCodePoint(Head(text)) \o Utf8Bytes(Tail(text))

\* text.encode('utf-8'): a lone surrogate cannot be encoded.
Utf8Encode(text) ==
    IF \E i \in 1..Len(text) : IsSurrogate(text[i])
    THEN Raised("UnicodeEncodeError")
    ELSE Returned(Utf8Bytes(text))

IsContinuation(b) == 128 <= b /\ b <= 191

\* The code point starting at bytes[i] and the bytes it takes; len = 0 when
\* the bytes there are not the UTF-8 encoding of a code point.
Utf8DecodeAt(bytes, i) ==
    LET b0 == bytes[i]
        n  == Len(bytes)
        invalid == [len |-> 0, cp |-> 0]
    IN  IF b0 < 128 THEN [len |-> 1, cp |-> b0]
        ELSE IF 194 <= b0 /\ b0 <= 223
        THEN IF i + 1 <= n /\ IsContinuation(bytes[i + 1])
             THEN [len |-> 2, cp |-> (b0 - 192) * 64 + (bytes[i + 1] - 128)]
             ELSE invalid
        ELSE IF 224 <= b0 /\ b0 <= 239
        THEN IF i + 2 <= n /\ IsContinuation(bytes[i + 1])
                /\ IsContinuation(bytes[i + 2])
             THEN LET c == (b0 - 224) * 4096 + (bytes[i + 1] - 128) * 64
                               + (bytes[i + 2] - 128)
                  IN  IF c >= 2048 /\ ~IsSurrogate(c)
                      THEN [len |-> 3, cp |-> c] ELSE invalid
             ELSE invalid
        ELSE IF 240 <= b0 /\ b0 <= 244
        THEN IF i + 3 <= n /\ IsContinuation(bytes[i + 1])
                /\ IsContinuation(bytes[i + 2]) /\ IsContinuation(bytes[i + 3])
             THEN LET c == (b0 - 240) * 262144 + (bytes[i + 1] - 128) * 4096
                               + (bytes[i + 2] - 128) * 64 + (bytes[i + 3] - 128)
                  IN  IF c >= 65536 /\ c <= 1114111
                      THEN [len |-> 4, cp |-> c] ELSE invalid
             ELSE invalid
        ELSE invalid

RECURSIVE Utf8DecodeFrom(_, _, _)
Utf8DecodeFrom(bytes, i, text) ==
    IF i > Len(bytes) THEN Returned(text)
    ELSE LET d == Utf8DecodeAt(bytes, i)
         IN  IF d.len = 0 THEN Raised("UnicodeDecodeError")
             ELSE Utf8DecodeFrom(bytes, i + d.len, Append(text, d.cp))

\* bytes.decode('utf-8'), strict.
Utf8Decode(bytes) == Utf8DecodeFrom(bytes, 1, <<>>)

\* bytes.decode('ascii'): each byte below 128 is its code point.
AsciiDecode(bytes) ==
    IF \E i \in 1..Len(bytes) : bytes[i] >= 128
    THEN Raised("UnicodeDecodeError")
    ELSE Returned(bytes)

\* The ASCII code of the base64 digit of a 6-bit value: A-Z a-z 0-9 + /
B64Char(v) ==
    IF v < 26 THEN 65 + v
    ELSE IF v < 52 THEN 97 + (v - 26)
    ELSE IF v < 62 THEN 48 + (v - 52)
    ELSE IF v = 62 THEN 43
    ELSE 47

B64Pad == 61

\* base64.b64encode: three bytes to four digits, the tail padded with '='.
RECURSIVE b64encode(_)
b64encode(bytes) ==
    IF Len(bytes) = 0 THEN <<>>
    ELSE IF Len(bytes) = 1
    THEN <<B64Char(bytes[1] \div 4), B64Char((bytes[1] % 4) * 16),
           B64Pad, B64Pad>>
    ELSE IF Len(bytes) = 2
    THEN <<B64Char(bytes[1] \div 4),
           B64Char((bytes[1] % 4) * 16 + (bytes[2] \div 16)),
           B64Char((bytes[2] % 16) * 4),
           B64Pad>>
    ELSE <<B64Char(bytes[1] \div 4),
           B64Char((bytes[1] % 4) * 16 + (bytes[2] \div 16)),
           B64Char((bytes[2] % 16) * 4 + (bytes[3] \div 64)),
           B64Char(bytes[3] % 64)>>
         \o b64encode(SubSeq(bytes, 4, Len(bytes)))

\* The code points of 'data:text/html;base64,'
DataUrlPrefix ==
    <<100, 97, 116, 97, 58, 116, 101, 120, 116, 47, 104, 116, 109, 108, 59,
      98, 97, 115, 101, 54, 52, 44>>

\* _build_preview_data_url(html)
build_preview_data_url(text) ==
    LET bytes == Utf8Encode(text)
    IN  IF bytes.raised # "" THEN bytes
        ELSE LET encoded == AsciiDecode(b64encode(bytes.value))
             IN  IF encoded.raised # "" THEN encoded
                 ELSE Returned(DataUrlPrefix \o encoded.value)

-----------------------------------------------------------------------------
(* The data-URL builder on its own: any text in, one URL out. *)

\* 'A', c-cedilla (2 bytes), the euro sign (3 bytes), U+1F5BC (4 bytes) and
\* the lone surrogate U+D800, which no valid text holds.
CodePoints == {65, 231, 8364, 128444, 55296}

InitUrl ==
    /\ html \in SeqsUpTo(CodePoints, MaxTextLen)
    /\ preview_link = <<>>
    /\ GrowthIdle
    /\ LoopIdle
    /\ AppIdle

ApplyBuildPreviewDataUrl ==
    /\ preview_link = <<>>
    /\ preview_link' = <<build_preview_data_url(html)>>
    /\ UNCHANGED <<html, growth_vars, loop_vars, app_vars>>

NextUrl == ApplyBuildPreviewDataUrl

SpecUrl == InitUrl /\ [][NextUrl]_vars

-----------------------------------------------------------------------------
(* Claims about the data-URL builder (SpecUrl) *)

\* The 6-bit value of a base64 digit, 64 for a character that is none.
B64Value(c) ==
    IF 65 <= c /\ c <= 90 THEN c - 65
    ELSE IF 97 <= c /\ c <= 122 THEN c - 97 + 26
    ELSE IF 48 <= c /\ c <= 57 THEN c - 48 + 52
    ELSE IF c = 43 THEN 62
    ELSE IF c = 47 THEN 63
    ELSE 64

\* base64 decoding of a padded payload.
RECURSIVE B64Decode(_)
B64Decode(chars) ==
    IF Len(chars) = 0 THEN Returned(<<>>)
    ELSE IF Len(chars) < 4 THEN Raised("binascii.Error")
    ELSE LET v1 == B64Value(chars[1])
             v2 == B64Value(chars[2])
             v3 == B64Value(chars[3])
             v4 == B64Value(chars[4])
             last == Len(chars) = 4
         IN  IF v1 = 64 \/ v2 = 64 THEN Raised("binascii.Error")
             ELSE IF last /\ chars[3] = B64Pad /\ chars[4] = B64Pad
             THEN Returned(<<v1 * 4 + (v2 \div 16)>>)
             ELSE IF v3 = 64 THEN Raised("binascii.Error")
             ELSE IF last /\ chars[4] = B64Pad
             THEN Returned(<<v1 * 4 + (v2 \div 16), (v2 % 16) * 16 + (v3 \div 4)>>)
             ELSE IF v4 = 64 THEN Raised("binascii.Error")
             ELSE LET rest == B64Decode(SubSeq(chars, 5, Len(chars)))
                  IN  IF rest.raised # "" THEN rest
                      ELSE Returned(<<v1 * 4 + (v2 \div 16),
                                      (v2 % 16) * 16 + (v3 \div 4),
                                      (v3 % 4) * 64 + v4>> \o rest.value)

ValidText(text) == \A i \in 1..Len(text) : ~IsSurrogate(text[i])

UrlBuilt == preview_link # <<>>

PayloadOf(url) == SubSeq(url, Len(DataUrlPrefix) + 1, Len(url))

\* The text a browser gets back from a data URL: the payload after the prefix,
\* base64-decoded, read as UTF-8.
TextOfDataUrl(url) ==
    LET bytes == B64Decode(PayloadOf(url))
    IN  IF bytes.raised # "" THEN bytes ELSE Utf8Decode(bytes.value)

\* C6: for every valid text the builder returns (it does not fail) the prefix
\* 'data:text/html;base64,' followed by a payload whose base64 decoding, read
\* as UTF-8, is the text.
C6_DataUrlRoundTrip ==
    (UrlBuilt /\ ValidText(html)) =>
        /\ preview_link[1].raised = ""
        /\ Len(preview_link[1].value) >= Len(DataUrlPrefix)
        /\ SubSeq(preview_link[1].value, 1, Len(DataUrlPrefix)) = DataUrlPrefix
        /\ TextOfDataUrl(preview_link[1].value) = Returned(html)

\* 'A' then c-cedilla: three bytes 41 C3 A7, the payload 'QcOn'.
C6_Witness ==
    /\ UrlBuilt
    /\ html = <<65, 231>>
    /\ preview_link[1].raised = ""
    /\ PayloadOf(preview_link[1].value) = <<81, 99, 79, 110>>

-----------------------------------------------------------------------------
(* The metric loop of render_gdp_dashboard *)

\* A row of the long table.
LongRecord(code, year, gdp) == [Country_Code |-> code, Year |-> year, GDP |-> gdp]

\* gdp_df[gdp_df['Year'] == year]
RowsOfYear(df, year) == SelectSeq(df, LAMBDA r : r.Year = year)

\* df['GDP']
GdpColumn(df) == [i \in 1..Len(df) |-> df[i].GDP]

\* The GDP column of every row, whatever its country.
GdpOfAnyCountry(df, country) == GdpColumn(df)

\* df[df['Country Code'] == country]['GDP']
GdpOfCountry(df, country) ==
    GdpColumn(SelectSeq(df, LAMBDA r : r.Country_Code = country))

\* The number of columns st.columns(4) lays the metrics out in.
NumCols == 4

\* The st.metric call of the i-th selected country (i counts from 0), in
\* column i % 4.
CountryMetric(first_year, last_year, country, i) ==
    LET m == ComputeGrowth(GdpOfCountry(first_year, country),
                           GdpOfCountry(last_year, country))
    IN  [col |-> i % NumCols,
         label |-> country \o " GDP",
         value |-> m.value,
         delta |-> m.delta,
         delta_color |-> m.delta_color]

\* for i, country in enumerate(selected): one st.metric call per country,
\* the 'continue' of the early exit going on to the next country.
RECURSIVE MetricLoopFrom(_, _, _, _)
MetricLoopFrom(first_year, last_year, selected, i) ==
    IF i >= Len(selected) THEN <<>>
    ELSE <<CountryMetric(first_year, last_year, selected[i + 1], i)>>
         \o MetricLoopFrom(first_year, last_year, selected, i + 1)

\* Lines 140-180: the two boundary-year tables, then the loop.
MetricLoop(df, from, to, selected) ==
    MetricLoopFrom(RowsOfYear(df, from), RowsOfYear(df, to), selected, 0)

-----------------------------------------------------------------------------
(* get_gdp_data *)

MIN_YEAR == 1960

MAX_YEAR == 2022

\* The code points of the decimal digits of n, most significant first.
RECURSIVE DigitsOf(_)
DigitsOf(n) ==
    IF n < 10 THEN <<48 + n>> ELSE Append(DigitsOf(n \div 10), 48 + (n % 10))

\* str(x), x >= 0
str(x) == DigitsOf(x)

RECURSIVE ParseDigits(_, _, _)
ParseDigits(label, i, n) ==
    IF i > Len(label) THEN n
    ELSE ParseDigits(label, i + 1, 10 * n + (label[i] - 48))

\* pd.to_numeric of a column label made of decimal digits.
to_numeric(label) == ParseDigits(label, 1, 0)

\* [str(x) for x in range(lo, hi + 1)]
YearLabels(lo, hi) == [k \in 1..(hi - lo + 1) |-> str(lo + k - 1)]

\* raw.melt(['Country Code'], value_vars, 'Year', 'GDP'): one row per value
\* column and input row, column after column and, within a column, in the
\* order of the input rows; a value column the table does not have is a
\* KeyError.
melt(raw, value_vars) ==
    LET n == Len(raw.rows)
    IN  IF \E k \in 1..Len(value_vars) : value_vars[k] \notin raw.columns
        THEN Raised("KeyError")
        ELSE Returned(
                 [k \in 1..(Len(value_vars) * n) |->
                     LET label == value_vars[((k - 1) \div n) + 1]
                         row   == raw.rows[((k - 1) % n) + 1]
                     IN  [Country_Code |-> row.Country_Code,
                          Year |-> label,
                          GDP |-> row.cells[label]]])

\* gdp_df['Year'] = pd.to_numeric(gdp_df['Year'])
YearsToNumeric(df) ==
    [i \in 1..Len(df) |->
        LongRecord(df[i].Country_Code, to_numeric(df[i].Year), df[i].GDP)]

\* The body of get_gdp_data with every year column of the file melted,
\* from the lowest year it has to the highest.
LoadGdpAllColumns(file) ==
    IF file = <<>> THEN Raised("FileNotFoundError")
    ELSE LET years  == {to_numeric(label) : label \in file[1].columns}
             lo     == CHOOSE y \in years : \A z \in years : y <= z
             hi     == CHOOSE y \in years : \A z \in years : z <= y
             melted == melt(file[1], YearLabels(lo, hi))
         IN  IF melted.raised # "" THEN melted
             ELSE Returned(YearsToNumeric(melted.value))

\* The body of get_gdp_data with the rows that hold no GDP dropped.
LoadGdpDropNa(file) ==
    IF file = <<>> THEN Raised("FileNotFoundError")
    ELSE LET melted == melt(file[1], YearLabels(MIN_YEAR, MAX_YEAR))
         IN  IF melted.raised # "" THEN melted
             ELSE Returned(SelectSeq(YearsToNumeric(melted.value),
                                     LAMBDA r : ~isnan(r.GDP)))

\* The body of get_gdp_data: read_csv, melt over '1960'..'2022', to_numeric.
LoadGdp(file) ==
    IF file = <<>> THEN Raised("FileNotFoundError")
    ELSE LET melted == melt(file[1], YearLabels(MIN_YEAR, MAX_YEAR))
         IN  IF melted.raised # "" THEN melted
             ELSE Returned(YearsToNumeric(melted.value))

\* get_gdp_data() under st.cache_data: the cached table if there is one, else
\* the body's outcome.  [outcome, cache]: a returned value is cached, an
\* exception is not.
get_gdp_data(file, cache) ==
    IF cache # <<>> THEN [outcome |-> Returned(cache[1]), cache |-> cache]
    ELSE LET loaded == LoadGdp(file)
         IN  [outcome |-> loaded,
              cache |-> IF loaded.raised = "" THEN <<loaded.value>> ELSE <<>>]

-----------------------------------------------------------------------------
(* get_schedule_html *)

CR == 13

LF == 10

\* Reading with the line endings left as they are (newline='').
VerbatimNewlines(text) == text

\* Text mode with newline=None: '\r\n' and a lone '\r' are read as '\n'.
RECURSIVE UniversalNewlines(_)
UniversalNewlines(text) ==
    IF text = <<>> THEN <<>>
    ELSE IF Head(text) = CR
    THEN IF Len(text) >= 2 /\ text[2] = LF
         THEN <<LF>> \o UniversalNewlines(SubSeq(text, 3, Len(text)))
         ELSE <<LF>> \o UniversalNewlines(Tail(text))
    ELSE <<Head(text)>> \o UniversalNewlines(Tail(text))

\* Path.read_text(encoding='utf-8')
read_text(file) ==
    IF file = <<>> THEN Raised("FileNotFoundError")
    ELSE LET decoded == Utf8Decode(file[1])
         IN  IF decoded.raised # "" THEN decoded
             ELSE Returned(UniversalNewlines(decoded.value))

\* get_schedule_html() under st.cache_data.
get_schedule_html(file, cache) ==
    IF cache # <<>> THEN [outcome |-> Returned(cache[1]), cache |-> cache]
    ELSE LET loaded == read_text(file)
         IN  [outcome |-> loaded,
              cache |-> IF loaded.raised = "" THEN <<loaded.value>> ELSE <<>>]

-----------------------------------------------------------------------------
(* render_gdp_dashboard *)

\* The default of the country multiselect.
DefaultCountries == <<"DEU", "FRA", "GBR", "BRA", "MEX", "JPN">>

Elements(seq) == {seq[i] : i \in 1..Len(seq)}

\* gdp_df['Country Code'].unique(): the distinct codes, in order of first
\* appearance.
UniqueCodes(df) ==
    LET firsts == SelectSeq([i \in 1..Len(df) |-> i],
                            LAMBDA i : \A j \in 1..(i - 1) :
                                df[j].Country_Code # df[i].Country_Code)
    IN  [k \in 1..Len(firsts) |-> df[firsts[k]].Country_Code]

YearsOf(df) == {df[i].Year : i \in 1..Len(df)}

\* gdp_df['Year'].min()
MinYear(df) == CHOOSE y \in YearsOf(df) : \A z \in YearsOf(df) : y <= z

\* gdp_df['Year'].max()
MaxYear(df) == CHOOSE y \in YearsOf(df) : \A z \in YearsOf(df) : z <= y

\* The rows charted, with the upper year left out.
FilterGdpBelow(df, selected, from, to) ==
    SelectSeq(df, LAMBDA r : /\ r.Country_Code \in Elements(selected)
                             /\ r.Year < to
                             /\ from <= r.Year)

\* gdp_df[isin(selected) & (Year <= to_year) & (from_year <= Year)]
FilterGdp(df, selected, from, to) ==
    SelectSeq(df, LAMBDA r : /\ r.Country_Code \in Elements(selected)
                             /\ r.Year <= to
                             /\ from <= r.Year)

\* What a script run leaves on the page.  raised: the exception that ended
\* the run, shown in place of the rest of the page ("" when it ran through).
Page(v, raised, warning, chart, header, page_metrics, schedule_html, link) ==
    [view |-> v, raised |-> raised, warning |-> warning, chart |-> chart,
     header |-> header, metrics |-> page_metrics,
     schedule_html |-> schedule_html, preview_link |-> link]

FailedPage(v, raised, warning) ==
    Page(v, raised, warning, <<>>, 0, <<>>, <<>>, <<>>)

\* One run of render_gdp_dashboard with the widget values of the session
\* (<<>>: the widget takes its default).  A widget the run does not reach is
\* not shown and loses its value.
render_gdp_dashboard(file, cache, slider_value, multiselect_value) ==
    LET got == get_gdp_data(file, cache)
        df  == got.outcome.value
        years == IF slider_value = <<>> THEN <<MinYear(df), MaxYear(df)>>
                 ELSE slider_value
        countries == UniqueCodes(df)
        warning == Len(countries) = 0
        selected == IF multiselect_value = <<>> THEN DefaultCountries
                    ELSE multiselect_value[1]
    IN  IF got.outcome.raised # ""
        THEN [cache |-> got.cache, slider |-> <<>>, multiselect |-> <<>>,
              page |-> FailedPage("GDP dashboard", got.outcome.raised, FALSE)]
        ELSE IF ~(Elements(DefaultCountries) \subseteq Elements(countries))
        THEN \* st.multiselect: a default that is not among the options
             [cache |-> got.cache, slider |-> years, multiselect |-> <<>>,
              page |-> FailedPage("GDP dashboard", "StreamlitAPIException",
                                  warning)]
        ELSE [cache |-> got.cache, slider |-> years,
              multiselect |-> <<selected>>,
              page |-> Page("GDP dashboard", "", warning,
                            FilterGdp(df, selected, years[1], years[2]),
                            years[2],
                            MetricLoop(df, years[1], years[2], selected),
                            <<>>, <<>>)]

-----------------------------------------------------------------------------
(* render_schedule_view *)

ScheduleView == "Leman Bicer ders programi"

\* One run of render_schedule_view: the text is shown in the iframe, as code
\* and as the download, and the preview link is built from it.
render_schedule_view(file, cache) ==
    LET got == get_schedule_html(file, cache)
        link == build_preview_data_url(got.outcome.value)
    IN  IF got.outcome.raised # ""
        THEN [cache |-> got.cache,
              page |-> FailedPage(ScheduleView, got.outcome.raised, FALSE)]
        ELSE IF link.raised # ""
        THEN [cache |-> got.cache,
              page |-> FailedPage(ScheduleView, link.raised, FALSE)]
        ELSE [cache |-> got.cache,
              page |-> Page(ScheduleView, "", FALSE, <<>>, 0, <<>>,
                            <<got.outcome.value>>, <<link.value>>)]

-----------------------------------------------------------------------------
(* The script: every interaction runs it from the top. *)

\* What every run leaves behind: the page shown, and the view recorded as
\* failed when an exception ended the run.
ShowPage(v, n, page) ==
    /\ view' = v
    /\ interactions' = n
    /\ out' = <<page>>
    /\ failed_views' = IF page.raised # "" THEN failed_views \cup {v}
                       ELSE failed_views
    /\ UNCHANGED <<files, growth_vars, url_vars, loop_vars>>

ShowDashboard(n, run) ==
    /\ ShowPage("GDP dashboard", n, run.page)
    /\ gdp_cache' = run.cache
    /\ schedule_cache' = schedule_cache
    /\ slider' = run.slider
    /\ multiselect' = run.multiselect

ShowSchedule(n, run) ==
    /\ ShowPage(ScheduleView, n, run.page)
    /\ schedule_cache' = run.cache
    /\ gdp_cache' = gdp_cache
    /\ slider' = <<>>
    /\ multiselect' = <<>>

\* The script run for view v with the session's widget values.  An exception
\* ends the run and is shown on the page; the caches and the server live on.
RunScript(v, slider_value, multiselect_value, n) ==
    IF v = "GDP dashboard"
    THEN ShowDashboard(n, render_gdp_dashboard(data_file, gdp_cache,
                                               slider_value, multiselect_value))
    ELSE ShowSchedule(n, render_schedule_view(schedule_file, schedule_cache))

Views == {"GDP dashboard", ScheduleView}

\* The years the user drags the slider's ends to: the two lowest and the two
\* highest of the slider's range.
SliderStops(lo, hi) == {y \in lo..hi : y <= lo + 1 \/ y >= hi - 1}

\* The page is opened: the radio is at its first option, 'GDP dashboard'.
Load ==
    /\ out = <<>>
    /\ RunScript("GDP dashboard", <<>>, <<>>, 0)

\* The radio is set to the other view.
SelectView(v) ==
    /\ out # <<>>
    /\ interactions < MaxInteractions
    /\ v # view
    /\ RunScript(v, slider, multiselect, interactions + 1)

\* The slider, on the page, is dragged to [a, b].
MoveSlider(a, b) ==
    /\ slider # <<>>
    /\ interactions < MaxInteractions
    /\ a <= b
    /\ <<a, b>> # slider
    /\ RunScript(view, <<a, b>>, multiselect, interactions + 1)

\* A country not yet selected is picked in the multiselect, on the page.
PickCountry(c) ==
    /\ multiselect # <<>>
    /\ interactions < MaxInteractions
    /\ c \in Elements(UniqueCodes(gdp_cache[1]))
    /\ c \notin Elements(multiselect[1])
    /\ RunScript(view, slider, <<Append(multiselect[1], c)>>, interactions + 1)

\* A selected country is removed from the multiselect.
DropCountry(c) ==
    /\ multiselect # <<>>
    /\ interactions < MaxInteractions
    /\ c \in Elements(multiselect[1])
    /\ RunScript(view, slider,
                 <<SelectSeq(multiselect[1], LAMBDA x : x # c)>>,
                 interactions + 1)

-----------------------------------------------------------------------------
(* The files the application is deployed with. *)

\* The GDP a country's row holds for a year, in UNITs: DEU has no 1960, BRA no
\* 2022, USA nothing before 1962 and GBR nothing before 2022.
CellOf(code, year) ==
    LET t == year - MIN_YEAR
    IN  CASE t < 0 \/ year > MAX_YEAR -> Money(7)
          [] code = "DEU" -> IF year = MIN_YEAR THEN NaN ELSE Money(5 * t + 3)
          [] code = "FRA" -> Money(10 * t + 1)
          [] code = "GBR" -> IF year = MAX_YEAR THEN Money(16) ELSE NaN
          [] code = "BRA" -> IF year = MAX_YEAR THEN NaN ELSE Money(5 * t + 2)
          [] code = "MEX" -> Money(8)
          [] code = "JPN" -> Money(1000 * t + 4)
          [] OTHER -> IF t < 2 THEN NaN ELSE Money(5 * t + 1)

RECURSIVE WideRows(_, _, _)
WideRows(codes, columns, i) ==
    IF i > Len(codes) THEN <<>>
    ELSE <<[Country_Code |-> codes[i],
            cells |-> [label \in columns |-> CellOf(codes[i], to_numeric(label))]]>>
         \o WideRows(codes, columns, i + 1)

\* A wide table: one row per country code, one column per year.
WideTable(codes, years) ==
    LET columns == {str(y) : y \in years}
    IN  [columns |-> columns, rows |-> WideRows(codes, columns, 1)]

DataFiles ==
    { <<>>,
      <<WideTable(<<"BRA", "DEU", "FRA", "GBR", "JPN", "MEX", "USA">>,
                  MIN_YEAR..MAX_YEAR)>>,
      <<WideTable(<<"MEX", "JPN", "GBR", "FRA", "DEU", "BRA">>,
                  (MIN_YEAR - 1)..(MAX_YEAR + 1))>>,
      <<WideTable(<<"DEU", "FRA", "USA">>, MIN_YEAR..MAX_YEAR)>>,
      <<WideTable(<<"BRA", "DEU", "FRA", "GBR", "JPN", "MEX">>,
                  MIN_YEAR..(MAX_YEAR - 1))>> }

\* 'A', CR LF, c-cedilla, CR, 'B' and 'A', LF, the euro sign: a file with
\* DOS and old Mac line ends, and one with Unix line ends; and a file that
\* is not UTF-8 (a lone byte 0xFF).
ScheduleFiles ==
    { <<>>,
      <<Utf8Bytes(<<65, CR, LF, 231, CR, 66>>)>>,
      <<Utf8Bytes(<<65, LF, 8364>>)>>,
      <<<<65, 255>>>> }

Init ==
    /\ data_file \in DataFiles
    /\ schedule_file \in ScheduleFiles
    /\ gdp_cache = <<>>
    /\ schedule_cache = <<>>
    /\ view = "GDP dashboard"
    /\ slider = <<>>
    /\ multiselect = <<>>
    /\ interactions = 0
    /\ failed_views = {}
    /\ out = <<>>
    /\ GrowthIdle
    /\ UrlIdle
    /\ LoopIdle

Next ==
    \/ Load
    \/ \E v \in Views : SelectView(v)
    \/ \E a, b \in SliderStops(MIN_YEAR, MAX_YEAR) : MoveSlider(a, b)
    \/ \E c \in Elements(DefaultCountries) \cup {"USA"} : PickCountry(c)
    \/ \E c \in Elements(DefaultCountries) \cup {"USA"} : DropCountry(c)

Spec == Init /\ [][Next]_vars

-----------------------------------------------------------------------------
(* The metric loop on its own: any long table, year pair and selection in. *)

LoopCodes == {"DEU", "FRA", "GBR"}

LoopYears == {1960, 2022}

\* The value a present cell of the table holds.
LoopValue(code, year) ==
    CASE code = "DEU" /\ year = 1960 -> Money(8)
      [] code = "DEU" /\ year = 2022 -> Money(16)
      [] code = "FRA" /\ year = 1960 -> Money(12)
      [] code = "FRA" /\ year = 2022 -> Money(3)
      [] code = "GBR" /\ year = 1960 -> Money(1)
      [] code = "GBR" /\ year = 2022 -> Money(9876)

LoopSlots ==
    <<<<"DEU", 1960>>, <<"FRA", 1960>>, <<"GBR", 1960>>,
      <<"DEU", 2022>>, <<"FRA", 2022>>, <<"GBR", 2022>>>>

\* The long table in which each (country, year) is absent, NaN or a value.
RECURSIVE FrameOf(_, _)
FrameOf(shape, i) ==
    IF i > Len(LoopSlots) THEN <<>>
    ELSE LET code == LoopSlots[i][1]
             year == LoopSlots[i][2]
             row  == CASE shape[i] = "absent" -> <<>>
                       [] shape[i] = "nan" -> <<LongRecord(code, year, NaN)>>
                       [] shape[i] = "value" ->
                              <<LongRecord(code, year, LoopValue(code, year))>>
         IN  row \o FrameOf(shape, i + 1)

LongFrames ==
    {FrameOf(shape, 1) :
        shape \in [1..Len(LoopSlots) -> {"absent", "nan", "value"}]}

\* A multiselect value: distinct options, in the order they were picked.
Selections(options, n) ==
    {s \in SeqsUpTo(options, n) :
        \A i, j \in 1..Len(s) : i # j => s[i] # s[j]}

InitMetrics ==
    /\ gdp_df \in LongFrames
    /\ from_year \in LoopYears
    /\ to_year \in LoopYears
    /\ from_year <= to_year
    /\ selected_countries \in Selections(LoopCodes, MaxSelected)
    /\ metrics = <<>>
    /\ GrowthIdle
    /\ UrlIdle
    /\ AppIdle

ApplyMetricLoop ==
    /\ metrics = <<>>
    /\ metrics' = <<MetricLoop(gdp_df, from_year, to_year, selected_countries)>>
    /\ UNCHANGED <<gdp_df, from_year, to_year, selected_countries,
                   growth_vars, url_vars, app_vars>>

NextMetrics == ApplyMetricLoop

SpecMetrics == InitMetrics /\ [][NextMetrics]_vars

-----------------------------------------------------------------------------
(* Claims about the metric loop (SpecMetrics) *)

LoopRan == metrics # <<>>

\* The rows of the table that are about one country.
OwnRows(df, country) == SelectSeq(df, LAMBDA r : r.Country_Code = country)

\* The GDP values the table holds for one country in one year.
OwnCells(df, country, year) ==
    LET own == SelectSeq(df, LAMBDA r : r.Country_Code = country /\ r.Year = year)
    IN  [i \in 1..Len(own) |-> own[i].GDP]

MetricBody(m) ==
    [value |-> m.value, delta |-> m.delta, delta_color |-> m.delta_color]

\* C8: every selected country gets exactly one metric, in selection order, and
\* that metric is a function of the country's own records at the two boundary
\* years: it is the metric the loop emits for that country selected alone on
\* the table cut down to its own rows, whatever path ("Data unavailable",
\* "n/a" or a ratio) the other countries take.
C8_PerCountryIndependence ==
    LoopRan =>
        /\ Len(metrics[1]) = Len(selected_countries)
        /\ \A i \in 1..Len(selected_countries) :
            LET country == selected_countries[i]
                alone   == MetricLoop(OwnRows(gdp_df, country), from_year,
                                      to_year, <<country>>)
            IN  /\ metrics[1][i].label = country \o " GDP"
                /\ metrics[1][i].col = (i - 1) % NumCols
                /\ MetricBody(metrics[1][i]) = MetricBody(alone[1])
                /\ MetricBody(metrics[1][i]) =
                       ComputeGrowth(OwnCells(gdp_df, country, from_year),
                                     OwnCells(gdp_df, country, to_year))

\* DEU has no record in the first year and takes the "Data unavailable" path;
\* FRA, selected after it, still gets its own ratio 3/12.
C8_Witness ==
    /\ LoopRan
    /\ selected_countries = <<"DEU", "FRA">>
    /\ from_year = 1960
    /\ to_year = 2022
    /\ OwnCells(gdp_df, "DEU", 1960) = <<>>
    /\ OwnCells(gdp_df, "GBR", 1960) = <<Money(1)>>
    /\ metrics[1][1].value = "Data unavailable"
    /\ metrics[1][2].delta = "0.25x"

-----------------------------------------------------------------------------
(* Claims about the growth computation (SpecGrowth) *)

Applied == metric # <<>>

BothPresent == ~empty(first_gdp_series) /\ ~empty(last_gdp_series)

FirstScaled == ScaleToBillions(iat0(first_gdp_series))

LastScaled == ScaleToBillions(iat0(last_gdp_series))

DataUnavailable ==
    [value |-> "Data unavailable", delta |-> "n/a", delta_color |-> "off"]

\* C2: whenever the first-year or the last-year lookup is empty, the metric is
\* exactly ("Data unavailable", "n/a", off), whatever the other series holds.
C2_AbsentInputGivesDataUnavailable ==
    (Applied /\ (empty(first_gdp_series) \/ empty(last_gdp_series)))
        => metric[1] = DataUnavailable

C2_Witness ==
    /\ Applied
    /\ empty(first_gdp_series)
    /\ ~empty(last_gdp_series)
    /\ ~isnan(iat0(last_gdp_series))
    /\ metric[1].value = "Data unavailable"

\* What Python prints for f'{v / 1_000_000_000:,.0f}B', v in GdpValues.
PrintedBillions(v) ==
    CASE v = NaN -> "nanB"
      [] v = Money(0) -> "0B"
      [] v = Money(-8) -> "-1B"
      [] v = Money(1) -> "0B"
      [] v = Money(3) -> "0B"
      [] v = Money(8) -> "1B"
      [] v = Money(12) -> "2B"
      [] v = Money(16) -> "2B"
      [] v = Money(9876) -> "1,234B"

\* C3: with both series present the display value is the last-year value in
\* billions, printed with thousands separators, no decimals and a "B", also
\* when the growth is "n/a"; and a NaN on either side gives growth "n/a", off.
C3_DisplayIsLastValueInBillions ==
    (Applied /\ BothPresent) =>
        /\ metric[1].value = FormatFixed(LastScaled, 0) \o "B"
        /\ metric[1].value = PrintedBillions(iat0(last_gdp_series))
        /\ (isnan(FirstScaled) \/ isnan(LastScaled)) =>
               /\ metric[1].delta = "n/a"
               /\ metric[1].delta_color = "off"

\* first = NaN, last = 1_000_000_000 gives ("1B", "n/a", off).
C3_Witness ==
    /\ Applied
    /\ first_gdp_series = <<NaN>>
    /\ last_gdp_series = <<Money(8)>>
    /\ metric[1] = [value |-> "1B", delta |-> "n/a", delta_color |-> "off"]

\* C4: with both series present and neither scaled value NaN, the growth is
\* last/first printed with two decimals and an "x", in colour normal; the
\* colour is normal exactly when the growth is a ratio, off exactly when it
\* is "n/a".
C4_GrowthIsFormattedRatio ==
    Applied =>
        /\ (BothPresent /\ ~isnan(FirstScaled) /\ ~isnan(LastScaled)) =>
               /\ metric[1].delta =
                      FormatFixed(FloatDiv(LastScaled, FirstScaled), 2) \o "x"
               /\ metric[1].delta_color = "normal"
        /\ (first_gdp_series = <<Money(8)>> /\ last_gdp_series = <<Money(16)>>)
               => metric[1] =
                      [value |-> "2B", delta |-> "2.00x", delta_color |-> "normal"]
        /\ (first_gdp_series = <<Money(8)>> /\ last_gdp_series = <<Money(9876)>>)
               => metric[1].delta = "1,234.50x"
        /\ metric[1].delta_color = "normal" <=> metric[1].delta # "n/a"
        /\ metric[1].delta_color = "off" <=> metric[1].delta = "n/a"
        /\ metric[1].delta_color \in {"normal", "off"}

\* first = 1_000_000_000, last = 2_000_000_000 gives ("2B", "2.00x", normal).
C4_Witness ==
    /\ Applied
    /\ first_gdp_series = <<Money(8)>>
    /\ last_gdp_series = <<Money(16)>>
    /\ metric[1].delta = "2.00x"

IsPositiveRatio(x) == x.kind = "finite" /\ x.sign = 1 /\ x.num > 0

\* C5: for every pair of inputs, a zero or negative first-year value included,
\* the growth is "n/a" or a positive ratio printed with two decimals and an
\* "x": never a zero, negative, infinite or not-a-number ratio.
C5_GrowthIsPositiveRatioOrNA ==
    Applied =>
        \/ metric[1].delta = "n/a"
        \/ /\ BothPresent
           /\ IsPositiveRatio(FloatDiv(LastScaled, FirstScaled))
           /\ metric[1].delta =
                  FormatFixed(FloatDiv(LastScaled, FirstScaled), 2) \o "x"

-----------------------------------------------------------------------------
(* The application: the loader, the chart filter, the "Data unavailable"
   branch and the missing files, over the pages the script shows. *)

Shown == out # <<>>

DashboardShown ==
    Shown /\ out[1].view = "GDP dashboard" /\ out[1].raised = ""

\* What the wide table holds: one (code, year, cell) for every row and every
\* year of 1960..2022.
WideRecords(raw) ==
    {<<raw.rows[i].Country_Code, y, raw.rows[i].cells[str(y)]>> :
        i \in 1..Len(raw.rows), y \in 1960..2022}

LongRecords(df) ==
    {<<df[i].Country_Code, df[i].Year, df[i].GDP>> : i \in 1..Len(df)}

\* C1: the table get_gdp_data returns for a wide table of N rows has exactly
\* N * 63 records, one per (row, year) of 1960..2022 holding that row's cell
\* (NaN when the cell is empty), with unique (Country Code, Year) pairs and
\* no Year outside 1960..2022 even when the file has more year columns.
C1_LoaderEmitsOneRecordPerRowAndYear ==
    gdp_cache # <<>> =>
        LET df  == gdp_cache[1]
            raw == data_file[1]
        IN  /\ Len(df) = Len(raw.rows) * 63
            /\ Cardinality({<<df[i].Country_Code, df[i].Year>> :
                               i \in 1..Len(df)}) = Len(df)
            /\ \A i \in 1..Len(df) : 1960 <= df[i].Year /\ df[i].Year <= 2022
            /\ LongRecords(df) = WideRecords(raw)

\* The file with the columns '1959' and '2023' is loaded: 6 rows give 378
\* records, some of them with no GDP.
C1_Witness ==
    /\ gdp_cache # <<>>
    /\ {str(1959), str(2023)} \subseteq data_file[1].columns
    /\ Len(gdp_cache[1]) = 378
    /\ \E i \in 1..Len(gdp_cache[1]) : isnan(gdp_cache[1][i].GDP)

\* C7: the records charted are exactly the loaded records whose Year lies in
\* the slider's range and whose Country Code is selected, each of them once,
\* the ones with no GDP included.
C7_ChartIsExactlyTheMatchingRecords ==
    DashboardShown =>
        LET chart == out[1].chart
        IN  /\ Elements(chart) =
                   {r \in Elements(gdp_cache[1]) :
                       /\ slider[1] <= r.Year
                       /\ r.Year <= slider[2]
                       /\ r.Country_Code \in Elements(multiselect[1])}
            /\ Cardinality(Elements(chart)) = Len(chart)

\* The slider's lower end has been moved up and USA picked: the chart holds
\* some records, not all, and one of them has no GDP.
C7_Witness ==
    /\ DashboardShown
    /\ slider[1] > MIN_YEAR
    /\ "USA" \in Elements(multiselect[1])
    /\ Len(out[1].chart) > 0
    /\ Len(out[1].chart) < Len(gdp_cache[1])
    /\ \E i \in 1..Len(out[1].chart) : isnan(out[1].chart[i].GDP)

\* The countries of the loaded table that have no GDP at a boundary year.
NoDataAtBoundary(country) ==
    \E r \in Elements(gdp_cache[1]) :
        /\ r.Country_Code = country
        /\ r.Year \in {slider[1], slider[2]}
        /\ isnan(r.GDP)

\* C10: on every dashboard page the selected countries are codes of the
\* loaded table and the two years lie within its years, every selected
\* country has its metric, none of them is "Data unavailable", and a country
\* with no GDP at a boundary year has growth "n/a", colour off.
C10_DataUnavailableNeverShown ==
    DashboardShown =>
        LET df       == gdp_cache[1]
            selected == multiselect[1]
            shown    == out[1].metrics
        IN  /\ Elements(selected) \subseteq {df[i].Country_Code : i \in 1..Len(df)}
            /\ \A y \in {slider[1], slider[2]} :
                   \E lo, hi \in YearsOf(df) : lo <= y /\ y <= hi
            /\ Len(shown) = Len(selected)
            /\ \A i \in 1..Len(shown) :
                   /\ shown[i].label = selected[i] \o " GDP"
                   /\ shown[i].value # "Data unavailable"
                   /\ NoDataAtBoundary(selected[i]) =>
                          /\ shown[i].delta = "n/a"
                          /\ shown[i].delta_color = "off"

\* After an interaction, a page where one country has no GDP at a boundary
\* year and is shown with growth "n/a", next to one that has a ratio.
C10_Witness ==
    /\ DashboardShown
    /\ interactions > 0
    /\ \E i, j \in 1..Len(out[1].metrics) :
           /\ NoDataAtBoundary(multiselect[1][i])
           /\ out[1].metrics[i].delta = "n/a"
           /\ out[1].metrics[j].delta # "n/a"

\* The schedule file is there and is UTF-8.
ReadableSchedule ==
    schedule_file # <<>> /\ Utf8Decode(schedule_file[1]).raised = ""

\* A text with its line ends made '\n': the LF of a CR LF is left out and
\* every CR becomes LF.
TranslatedNewlines(text) ==
    LET kept == SelectSeq([i \in 1..Len(text) |-> i],
                          LAMBDA i : ~(text[i] = 10 /\ i > 1 /\ text[i - 1] = 13))
    IN  [k \in 1..Len(kept) |->
            IF text[kept[k]] = 13 THEN 10 ELSE text[kept[k]]]

\* A missing file fails the view that reads it with FileNotFoundError, shown
\* on the page, and only that view, whichever views have failed before.
MissingFileFailsOnlyItsView ==
    /\ out[1].view = view
    /\ out[1].view = ScheduleView =>
           /\ schedule_file = <<>> => out[1].raised = "FileNotFoundError"
           /\ ReadableSchedule => out[1].raised = ""
    /\ out[1].view = "GDP dashboard" =>
           (out[1].raised = "FileNotFoundError" <=> data_file = <<>>)

=============================================================================
